---------------------------- MODULE Spec2Model ----------------------------
(***************************************************************************)
(* Model of cc/util/validation.cc (tink): the four validation functions    *)
(* ValidateAesKeySize, ValidateKey, ValidateKeyset and ValidateVersion.    *)
(* The functions are pure; the state machine is a caller that holds the    *)
(* arguments of one call, makes it and observes the returned util::Status. *)
(***************************************************************************)
EXTENDS Integers, Sequences, FiniteSets, TLC

VARIABLES pc, fn, key_size, candidate, max_expected, key, keyset, status

vars == <<pc, fn, key_size, candidate, max_expected, key, keyset, status>>

(***************************************************************************)
(* Bounds of the explored inputs.                                          *)
(***************************************************************************)
\* longest key sequence of an explored keyset
MaxKeys == 3
\* key sizes 0..MaxKeySize are explored, plus values at the top of uint32_t
MaxKeySize == 40
\* versions 0..MaxVersion are explored, plus values at the top of uint32_t
MaxVersion == 8

\* uint32_t.  TLC's integers are 32-bit signed, so a uint32_t value is kept as
\* its two 16-bit halves <<high, low>>.
Half == 2^16
U32(n) == <<n \div Half, n % Half>>
UINT32_MAX == <<Half - 1, Half - 1>>
\* a > b on uint32_t
Greater(a, b) == a[1] > b[1] \/ (a[1] = b[1] /\ a[2] > b[2])

(***************************************************************************)
(* proto/tink.proto enumerations used by validation.cc                     *)
(***************************************************************************)
KeyStatusType == {"UNKNOWN_STATUS", "ENABLED", "DISABLED", "DESTROYED"}
OutputPrefixType == {"UNKNOWN_PREFIX", "TINK", "LEGACY", "RAW", "CRUNCHY"}
KeyMaterialType ==
    {"UNKNOWN_KEYMATERIAL", "SYMMETRIC", "ASYMMETRIC_PRIVATE",
     "ASYMMETRIC_PUBLIC", "REMOTE"}

\* Keyset::Key as validation.cc reads it.  key.key_data() of a key without
\* key data is the default KeyData, whose key_material_type is the enum's
\* zero value.
Key(id, st, prefix, has, material) ==
    [key_id |-> id, status |-> st, output_prefix_type |-> prefix,
     has_key_data |-> has,
     key_material_type |-> IF has THEN material ELSE "UNKNOWN_KEYMATERIAL"]

\* Keyset as validation.cc reads it: the repeated field key (keyset.key(i) is
\* key[i + 1] here) and primary_key_id.
Keyset(keys, primary) == [key |-> keys, primary_key_id |-> primary]

(***************************************************************************)
(* util::Status and ToStatusF                                              *)
(***************************************************************************)
OK == [error_code |-> "OK", format |-> "", args |-> <<>>]

\* The error of kind code whose message is format filled in with args.
ToStatusF(code, format, args) ==
    [error_code |-> code, format |-> format, args |-> args]

(***************************************************************************)
(* ValidateAesKeySize                                                      *)
(***************************************************************************)
\* ValidateAesKeySize with the size narrowed to 16 bits before the comparison
ValidateAesKeySize_Narrowed(size) ==
    IF size[2] # 16 /\ size[2] # 32
    THEN ToStatusF("INVALID_ARGUMENT",
                   "AES key has %d bytes; supported sizes: 16 or 32 bytes.",
                   <<size>>)
    ELSE OK

ValidateAesKeySize(size) ==
    IF size # U32(16) /\ size # U32(32)
    THEN ToStatusF("INVALID_ARGUMENT",
                   "AES key has %d bytes; supported sizes: 16 or 32 bytes.",
                   <<size>>)
    ELSE OK

(***************************************************************************)
(* ValidateKey                                                             *)
(***************************************************************************)
\* ValidateKey with the prefix check ahead of the key data check
ValidateKey_PrefixFirst(k) ==
    IF k.output_prefix_type = "UNKNOWN_PREFIX"
    THEN ToStatusF("INVALID_ARGUMENT", "key %d has unknown prefix", <<k.key_id>>)
    ELSE IF ~k.has_key_data
    THEN ToStatusF("INVALID_ARGUMENT", "key %d, has no key data", <<k.key_id>>)
    ELSE IF k.status = "UNKNOWN_STATUS"
    THEN ToStatusF("INVALID_ARGUMENT", "key %d has unknown status", <<k.key_id>>)
    ELSE OK

ValidateKey(k) ==
    IF ~k.has_key_data
    THEN ToStatusF("INVALID_ARGUMENT", "key %d, has no key data", <<k.key_id>>)
    ELSE IF k.output_prefix_type = "UNKNOWN_PREFIX"
    THEN ToStatusF("INVALID_ARGUMENT", "key %d has unknown prefix", <<k.key_id>>)
    ELSE IF k.status = "UNKNOWN_STATUS"
    THEN ToStatusF("INVALID_ARGUMENT", "key %d has unknown status", <<k.key_id>>)
    ELSE OK

(***************************************************************************)
(* ValidateKeyset                                                          *)
(***************************************************************************)
\* ret of a call that has not returned
NotReturned == [error_code |-> "none", format |-> "", args |-> <<>>]

\* The locals of ValidateKeyset; ret is the value of an early return,
\* NotReturned while the function has not returned.
Locals(has_primary_key, contains_only_public_key_material, enabled_keys, ret) ==
    [has_primary_key |-> has_primary_key,
     contains_only_public_key_material |-> contains_only_public_key_material,
     enabled_keys |-> enabled_keys,
     ret |-> ret]

InitLocals == Locals(FALSE, TRUE, 0, NotReturned)

\* Skipped passing over Disabled and Destroyed records only
Skipped_NotUnknown(k) == k.status \in {"DISABLED", "DESTROYED"}

\* the record is passed over by the loop
Skipped(k) == k.status # "ENABLED"

\* the record is the keyset's primary key
IsPrimary(k, primary_key_id) ==
    k.status = "ENABLED" /\ k.key_id = primary_key_id

\* OnlyPublic assigning the flag from the current record alone
OnlyPublic_Assigned(only, k) == k.key_material_type = "ASYMMETRIC_PUBLIC"

\* contains_only_public_key_material after record k
OnlyPublic(only, k) ==
    IF k.key_material_type # "ASYMMETRIC_PUBLIC" THEN FALSE ELSE only

\* LoopBody without the check for a second primary key
LoopBody_NoDuplicateCheck(k, primary_key_id, l) ==
    IF Skipped(k)
    THEN l
    ELSE LET enabled_keys == l.enabled_keys + 1
             validation_result == ValidateKey(k)
         IN  IF validation_result.error_code # "OK"
             THEN Locals(l.has_primary_key, l.contains_only_public_key_material,
                         enabled_keys, validation_result)
             ELSE Locals(l.has_primary_key \/ IsPrimary(k, primary_key_id),
                         OnlyPublic(l.contains_only_public_key_material, k),
                         enabled_keys, NotReturned)

\* LoopBody with the check for a second primary key ahead of ValidateKey
LoopBody_DuplicateCheckFirst(k, primary_key_id, l) ==
    IF Skipped(k)
    THEN l
    ELSE LET enabled_keys == l.enabled_keys + 1
             validation_result == ValidateKey(k)
         IN  IF IsPrimary(k, primary_key_id) /\ l.has_primary_key
             THEN Locals(l.has_primary_key, l.contains_only_public_key_material,
                         enabled_keys,
                         ToStatusF("INVALID_ARGUMENT",
                                   "keyset contains multiple primary keys", <<>>))
             ELSE IF validation_result.error_code # "OK"
             THEN Locals(l.has_primary_key, l.contains_only_public_key_material,
                         enabled_keys, validation_result)
             ELSE Locals(l.has_primary_key \/ IsPrimary(k, primary_key_id),
                         OnlyPublic(l.contains_only_public_key_material, k),
                         enabled_keys, NotReturned)

\* One iteration of the for loop over keyset.key(i), on record k.
LoopBody(k, primary_key_id, l) ==
    IF Skipped(k)
    THEN l
    ELSE LET enabled_keys == l.enabled_keys + 1
             validation_result == ValidateKey(k)
         IN  IF validation_result.error_code # "OK"
             THEN Locals(l.has_primary_key, l.contains_only_public_key_material,
                         enabled_keys, validation_result)
             ELSE IF IsPrimary(k, primary_key_id) /\ l.has_primary_key
             THEN Locals(l.has_primary_key, l.contains_only_public_key_material,
                         enabled_keys,
                         ToStatusF("INVALID_ARGUMENT",
                                   "keyset contains multiple primary keys", <<>>))
             ELSE Locals(l.has_primary_key \/ IsPrimary(k, primary_key_id),
                         OnlyPublic(l.contains_only_public_key_material, k),
                         enabled_keys, NotReturned)

\* The for loop from index i (1-based) on; stops at the first return.
RECURSIVE KeyLoop(_, _, _)
KeyLoop(ks, i, l) ==
    IF i > Len(ks.key) \/ l.ret # NotReturned
    THEN l
    ELSE KeyLoop(ks, i + 1, LoopBody(ks.key[i], ks.primary_key_id, l))

\* AfterLoop with || in place of && in the primary key check
AfterLoop_Or(l) ==
    IF l.enabled_keys = 0
    THEN ToStatusF("INVALID_ARGUMENT",
                   "keyset must contain at least one ENABLED key", <<>>)
    ELSE IF ~l.has_primary_key \/ ~l.contains_only_public_key_material
    THEN ToStatusF("INVALID_ARGUMENT",
                   "keyset doesn't contain a valid primary key", <<>>)
    ELSE OK

\* AfterLoop without the exception for public key material
AfterLoop_NoPublicException(l) ==
    IF l.enabled_keys = 0
    THEN ToStatusF("INVALID_ARGUMENT",
                   "keyset must contain at least one ENABLED key", <<>>)
    ELSE IF ~l.has_primary_key
    THEN ToStatusF("INVALID_ARGUMENT",
                   "keyset doesn't contain a valid primary key", <<>>)
    ELSE OK

\* The checks after the loop.
AfterLoop(l) ==
    IF l.enabled_keys = 0
    THEN ToStatusF("INVALID_ARGUMENT",
                   "keyset must contain at least one ENABLED key", <<>>)
    ELSE IF ~l.has_primary_key /\ ~l.contains_only_public_key_material
    THEN ToStatusF("INVALID_ARGUMENT",
                   "keyset doesn't contain a valid primary key", <<>>)
    ELSE OK

\* ValidateKeyset without the check for an empty keyset
ValidateKeyset_NoEmptyCheck(ks) ==
    LET l == KeyLoop(ks, 1, InitLocals)
    IN  IF l.ret # NotReturned THEN l.ret ELSE AfterLoop(l)

ValidateKeyset(ks) ==
    IF Len(ks.key) < 1
    THEN ToStatusF("INVALID_ARGUMENT",
                   "A valid keyset must contain at least one key.", <<>>)
    ELSE LET l == KeyLoop(ks, 1, InitLocals)
         IN  IF l.ret # NotReturned THEN l.ret ELSE AfterLoop(l)

(***************************************************************************)
(* ValidateVersion                                                         *)
(***************************************************************************)
\* ValidateVersion with >= in place of >
ValidateVersion_GreaterEqual(cand, max) ==
    IF Greater(cand, max) \/ cand = max
    THEN ToStatusF("INVALID_ARGUMENT",
                   "Key has version '%d'; only keys with version in range [0..%d] are supported.",
                   <<cand, max>>)
    ELSE OK

ValidateVersion(cand, max) ==
    IF Greater(cand, max)
    THEN ToStatusF("INVALID_ARGUMENT",
                   "Key has version '%d'; only keys with version in range [0..%d] are supported.",
                   <<cand, max>>)
    ELSE OK

(***************************************************************************)
(* Explored inputs                                                         *)
(***************************************************************************)
\* values at the top of uint32_t and around the sign bit, and values that
\* agree with 16 and 32 in the low half only
HighValues ==
    {UINT32_MAX, <<Half - 1, Half - 2>>, <<Half \div 2, 0>>, <<Half \div 2 - 1, Half - 1>>,
     <<1, 0>>, <<1, 16>>, <<1, 32>>}
KeySizes == {U32(n) : n \in 0 .. MaxKeySize} \cup HighValues
Versions == {U32(n) : n \in 0 .. MaxVersion} \cup HighValues
KeyIds == {U32(1), U32(2)}
\* primary_key_id of the explored keysets: a record with key_id 1 matches it,
\* a record with key_id 2 does not
PrimaryKeyIds == {U32(1)}

\* every key record, for ValidateKey
AllKeys ==
    {Key(id, st, p, h, m) :
        id \in KeyIds, st \in KeyStatusType, p \in OutputPrefixType,
        h \in BOOLEAN, m \in KeyMaterialType}

\* The key records of the explored keysets, by <<status, output prefix type,
\* has key data, key material type>>: every outcome of ValidateKey on an
\* enabled record, with public and with other key material, and records of
\* every other status, among them one without key data and prefix.
KeyShapes ==
    {<<"ENABLED", "TINK", FALSE, "UNKNOWN_KEYMATERIAL">>,
     <<"ENABLED", "UNKNOWN_PREFIX", TRUE, "SYMMETRIC">>,
     <<"ENABLED", "UNKNOWN_PREFIX", TRUE, "ASYMMETRIC_PUBLIC">>,
     <<"ENABLED", "TINK", TRUE, "SYMMETRIC">>,
     <<"ENABLED", "RAW", TRUE, "ASYMMETRIC_PUBLIC">>,
     <<"ENABLED", "LEGACY", TRUE, "ASYMMETRIC_PRIVATE">>,
     <<"DISABLED", "UNKNOWN_PREFIX", FALSE, "UNKNOWN_KEYMATERIAL">>,
     <<"DISABLED", "TINK", TRUE, "SYMMETRIC">>,
     <<"DESTROYED", "TINK", TRUE, "ASYMMETRIC_PUBLIC">>,
     <<"UNKNOWN_STATUS", "TINK", TRUE, "SYMMETRIC">>}

KeysetKeys ==
    {Key(id, sh[1], sh[2], sh[3], sh[4]) : id \in KeyIds, sh \in KeyShapes}

SeqsUpTo(S, n) == UNION {[1 .. m -> S] : m \in 0 .. n}

Keysets == {Keyset(keys, p) : keys \in SeqsUpTo(KeysetKeys, MaxKeys), p \in PrimaryKeyIds}

NoKey == Key(U32(0), "UNKNOWN_STATUS", "UNKNOWN_PREFIX", FALSE, "UNKNOWN_KEYMATERIAL")
NoKeyset == Keyset(<<>>, U32(0))

(***************************************************************************)
(* The caller: it holds the arguments of one call of function fn, makes    *)
(* the call and holds the returned status.                                 *)
(***************************************************************************)
Init ==
    /\ pc = "call"
    /\ status = NotReturned
    /\ \/ /\ fn = "ValidateAesKeySize"
          /\ key_size \in KeySizes
          /\ candidate = U32(0) /\ max_expected = U32(0)
          /\ key = NoKey /\ keyset = NoKeyset
       \/ /\ fn = "ValidateVersion"
          /\ candidate \in Versions /\ max_expected \in Versions
          /\ key_size = U32(0)
          /\ key = NoKey /\ keyset = NoKeyset
       \/ /\ fn = "ValidateKey"
          /\ key \in AllKeys
          /\ key_size = U32(0) /\ candidate = U32(0) /\ max_expected = U32(0)
          /\ keyset = NoKeyset
       \/ /\ fn = "ValidateKeyset"
          /\ keyset \in Keysets
          /\ key_size = U32(0) /\ candidate = U32(0) /\ max_expected = U32(0)
          /\ key = NoKey

CallValidateAesKeySize ==
    /\ pc = "call" /\ fn = "ValidateAesKeySize"
    /\ status' = ValidateAesKeySize(key_size)
    /\ pc' = "done"
    /\ UNCHANGED <<fn, key_size, candidate, max_expected, key, keyset>>

CallValidateVersion ==
    /\ pc = "call" /\ fn = "ValidateVersion"
    /\ status' = ValidateVersion(candidate, max_expected)
    /\ pc' = "done"
    /\ UNCHANGED <<fn, key_size, candidate, max_expected, key, keyset>>

CallValidateKey ==
    /\ pc = "call" /\ fn = "ValidateKey"
    /\ status' = ValidateKey(key)
    /\ pc' = "done"
    /\ UNCHANGED <<fn, key_size, candidate, max_expected, key, keyset>>

CallValidateKeyset ==
    /\ pc = "call" /\ fn = "ValidateKeyset"
    /\ status' = ValidateKeyset(keyset)
    /\ pc' = "done"
    /\ UNCHANGED <<fn, key_size, candidate, max_expected, key, keyset>>

Next ==
    \/ CallValidateAesKeySize
    \/ CallValidateVersion
    \/ CallValidateKey
    \/ CallValidateKeyset

Spec == Init /\ [][Next]_vars

(***************************************************************************)
(* Vocabulary of the properties                                            *)
(***************************************************************************)
\* the call of function f has returned
Returned(f) == pc = "done" /\ fn = f

InvalidArgument(format, args) ==
    [error_code |-> "INVALID_ARGUMENT", format |-> format, args |-> args]

EmptyDiag == InvalidArgument("A valid keyset must contain at least one key.", <<>>)
NoEnabledDiag == InvalidArgument("keyset must contain at least one ENABLED key", <<>>)
MultiplePrimaryDiag == InvalidArgument("keyset contains multiple primary keys", <<>>)
NoPrimaryDiag == InvalidArgument("keyset doesn't contain a valid primary key", <<>>)
NoKeyDataDiag(k) == InvalidArgument("key %d, has no key data", <<k.key_id>>)
UnknownPrefixDiag(k) == InvalidArgument("key %d has unknown prefix", <<k.key_id>>)
UnknownStatusDiag(k) == InvalidArgument("key %d has unknown status", <<k.key_id>>)

\* indices of the Enabled records of keyset ks
EnabledAt(ks) == {i \in DOMAIN ks.key : ks.key[i].status = "ENABLED"}
\* indices of the Enabled records whose key_id is primary_key_id
PrimaryAt(ks) == {i \in EnabledAt(ks) : ks.key[i].key_id = ks.primary_key_id}
\* the record has key data and a known output prefix type
WellFormed(k) == k.has_key_data /\ k.output_prefix_type # "UNKNOWN_PREFIX"
\* indices of the Enabled records with key material other than AsymmetricPublic
NonPublicAt(ks) ==
    {i \in EnabledAt(ks) : ks.key[i].key_material_type # "ASYMMETRIC_PUBLIC"}
\* indices of the Enabled records that fail ValidateKey or are a second
\* match of primary_key_id
ViolationAt(ks) ==
    {i \in EnabledAt(ks) :
        \/ ~WellFormed(ks.key[i])
        \/ i \in PrimaryAt(ks) /\ \E j \in PrimaryAt(ks) : j < i}
Min(S) == CHOOSE i \in S : \A j \in S : i <= j

Insert(ks, pos, k) ==
    Keyset(SubSeq(ks.key, 1, pos - 1) \o <<k>> \o SubSeq(ks.key, pos, Len(ks.key)),
           ks.primary_key_id)
Remove(ks, pos) ==
    Keyset(SubSeq(ks.key, 1, pos - 1) \o SubSeq(ks.key, pos + 1, Len(ks.key)),
           ks.primary_key_id)
Truncate(ks, n) == Keyset(SubSeq(ks.key, 1, n), ks.primary_key_id)
\* the permutations of 1 .. n, for every length n of an explored keyset
PermutationsOf == [n \in 0 .. MaxKeys |-> Permutations(1 .. n)]
Permute(ks, p) ==
    Keyset([i \in DOMAIN ks.key |-> ks.key[p[i]]], ks.primary_key_id)

(***************************************************************************)
(* Properties                                                              *)
(***************************************************************************)

\* C1: ValidateKeyset returns OK iff the keyset has a key record, has an
\* Enabled record, every Enabled record has key data and a known prefix, at
\* most one Enabled record has key_id = primary_key_id, and some Enabled record
\* has key_id = primary_key_id or every Enabled record's key material is
\* AsymmetricPublic; otherwise it returns InvalidArgument.
C1_KeysetValidIff ==
    Returned("ValidateKeyset") =>
        /\ status.error_code \in {"OK", "INVALID_ARGUMENT"}
        /\ status.error_code = "OK" <=>
              /\ Len(keyset.key) >= 1
              /\ EnabledAt(keyset) # {}
              /\ \A i \in EnabledAt(keyset) : WellFormed(keyset.key[i])
              /\ Cardinality(PrimaryAt(keyset)) <= 1
              /\ PrimaryAt(keyset) # {} \/ NonPublicAt(keyset) = {}

\* a keyset of several Enabled public keys and no primary was accepted
C1_Witness ==
    /\ Returned("ValidateKeyset")
    /\ status = OK
    /\ PrimaryAt(keyset) = {}
    /\ Cardinality(EnabledAt(keyset)) >= 2
    /\ Len(keyset.key) > Cardinality(EnabledAt(keyset))

\* C2: ValidateKey checks key data, then the output prefix type, then the
\* status, and returns the diagnostic of the first check that fails; every
\* other record (Disabled and Destroyed ones too) succeeds.
C2_ValidateKeyFirstFailure ==
    Returned("ValidateKey") =>
        status = IF ~key.has_key_data THEN NoKeyDataDiag(key)
                 ELSE IF key.output_prefix_type = "UNKNOWN_PREFIX"
                      THEN UnknownPrefixDiag(key)
                 ELSE IF key.status = "UNKNOWN_STATUS"
                      THEN UnknownStatusDiag(key)
                 ELSE OK

\* a record failing all three checks was reported as having no key data
C2_Witness ==
    /\ Returned("ValidateKey")
    /\ ~key.has_key_data
    /\ key.output_prefix_type = "UNKNOWN_PREFIX"
    /\ key.status = "UNKNOWN_STATUS"
    /\ status = NoKeyDataDiag(key)

\* C3 as stated: a keyset with two Enabled records both matching
\* primary_key_id fails with the "multiple primary keys" diagnostic.
C3_Original ==
    (Returned("ValidateKeyset") /\ Cardinality(PrimaryAt(keyset)) >= 2)
        => status = MultiplePrimaryDiag

\* C3 amended: a keyset with two Enabled records both matching primary_key_id
\* fails; the diagnostic is "multiple primary keys" when every Enabled record
\* up to and including the second match has key data and a known prefix.
C3_MultiplePrimary ==
    (Returned("ValidateKeyset") /\ Cardinality(PrimaryAt(keyset)) >= 2) =>
        LET second == Min(PrimaryAt(keyset) \ {Min(PrimaryAt(keyset))})
        IN  /\ status.error_code = "INVALID_ARGUMENT"
            /\ (\A i \in EnabledAt(keyset) : i <= second => WellFormed(keyset.key[i]))
                  => status = MultiplePrimaryDiag

\* two well-formed Enabled primaries were rejected as multiple primary keys
C3_Witness ==
    /\ Returned("ValidateKeyset")
    /\ Cardinality(PrimaryAt(keyset)) >= 2
    /\ \A i \in EnabledAt(keyset) : WellFormed(keyset.key[i])
    /\ status = MultiplePrimaryDiag

\* C4 as stated: a keyset with one Enabled record, which does not match
\* primary_key_id, passes when the record's key material is AsymmetricPublic
\* and fails with "doesn't contain a valid primary key" when it is Symmetric.
C4_Original ==
    (/\ Returned("ValidateKeyset")
     /\ Cardinality(EnabledAt(keyset)) = 1
     /\ PrimaryAt(keyset) = {}) =>
        LET k == keyset.key[Min(EnabledAt(keyset))]
        IN  /\ (k.has_key_data /\ k.key_material_type = "ASYMMETRIC_PUBLIC")
                  => status = OK
            /\ (k.has_key_data /\ k.key_material_type = "SYMMETRIC")
                  => status = NoPrimaryDiag

\* C4 amended: the same, for a record whose output prefix type is not Unknown.
C4_PublicKeyException ==
    (/\ Returned("ValidateKeyset")
     /\ Cardinality(EnabledAt(keyset)) = 1
     /\ PrimaryAt(keyset) = {}) =>
        LET k == keyset.key[Min(EnabledAt(keyset))]
        IN  /\ (WellFormed(k) /\ k.key_material_type = "ASYMMETRIC_PUBLIC")
                  => status = OK
            /\ (WellFormed(k) /\ k.key_material_type = "SYMMETRIC")
                  => status = NoPrimaryDiag

\* a lone Enabled public key that is not the primary was accepted
C4_Witness ==
    /\ Returned("ValidateKeyset")
    /\ Cardinality(EnabledAt(keyset)) = 1
    /\ PrimaryAt(keyset) = {}
    /\ WellFormed(keyset.key[Min(EnabledAt(keyset))])
    /\ keyset.key[Min(EnabledAt(keyset))].key_material_type = "ASYMMETRIC_PUBLIC"
    /\ status = OK

\* C5: a keyset with no key record fails with "must contain at least one
\* key"; a keyset whose records all have status Disabled fails with "must
\* contain at least one ENABLED key", whatever their other fields are.
C5_NothingUsable ==
    Returned("ValidateKeyset") =>
        /\ Len(keyset.key) = 0 => status = EmptyDiag
        /\ (/\ Len(keyset.key) >= 1
            /\ \A i \in DOMAIN keyset.key : keyset.key[i].status = "DISABLED")
              => status = NoEnabledDiag

\* Disabled records only, one of them without key data, with Unknown prefix
\* and with the primary key id
C5_Witness ==
    /\ Returned("ValidateKeyset")
    /\ Len(keyset.key) >= 2
    /\ \A i \in DOMAIN keyset.key : keyset.key[i].status = "DISABLED"
    /\ \E i \in DOMAIN keyset.key :
          /\ ~keyset.key[i].has_key_data
          /\ keyset.key[i].output_prefix_type = "UNKNOWN_PREFIX"
          /\ keyset.key[i].key_id = keyset.primary_key_id
    /\ status = NoEnabledDiag

\* C6: ValidateAesKeySize returns OK iff key_size is 16 or 32, and
\* InvalidArgument for every other 32-bit unsigned value.
C6_AesKeySize ==
    Returned("ValidateAesKeySize") =>
        /\ status.error_code \in {"OK", "INVALID_ARGUMENT"}
        /\ status.error_code = "OK" <=> key_size \in {<<0, 16>>, <<0, 32>>}

\* a size that is 32 in its low half only was rejected
C6_Witness ==
    /\ Returned("ValidateAesKeySize")
    /\ key_size = <<1, 32>>
    /\ status.error_code = "INVALID_ARGUMENT"

\* C7: ValidateVersion returns OK iff candidate <= max_expected, and
\* InvalidArgument otherwise, for all pairs of 32-bit unsigned values.
C7_Version ==
    Returned("ValidateVersion") =>
        /\ status.error_code \in {"OK", "INVALID_ARGUMENT"}
        /\ status.error_code = "OK" <=>
              \/ candidate[1] < max_expected[1]
              \/ candidate[1] = max_expected[1] /\ candidate[2] <= max_expected[2]

\* the largest version was rejected against a small maximum
C7_Witness ==
    /\ Returned("ValidateVersion")
    /\ candidate = UINT32_MAX
    /\ max_expected = <<0, 1>>
    /\ status.error_code = "INVALID_ARGUMENT"

\* C8: ValidateKeyset reports the first violation in scan order: the empty
\* keyset; else, at the lowest index i where an Enabled record fails
\* ValidateKey or is a second primary match, that record's diagnostic
\* (ValidateKey's failure before the duplicate primary), whatever follows
\* index i; else the missing Enabled key; else the missing primary key.
C8_FirstViolation ==
    Returned("ValidateKeyset") =>
        IF Len(keyset.key) = 0 THEN status = EmptyDiag
        ELSE IF ViolationAt(keyset) # {}
        THEN LET i == Min(ViolationAt(keyset))
                 k == keyset.key[i]
             IN  /\ status = IF ~k.has_key_data THEN NoKeyDataDiag(k)
                             ELSE IF k.output_prefix_type = "UNKNOWN_PREFIX"
                                  THEN UnknownPrefixDiag(k)
                             ELSE MultiplePrimaryDiag
                 /\ status = ValidateKeyset(Truncate(keyset, i))
        ELSE IF EnabledAt(keyset) = {} THEN status = NoEnabledDiag
        ELSE IF PrimaryAt(keyset) = {} /\ NonPublicAt(keyset) # {}
        THEN status = NoPrimaryDiag
        ELSE status = OK

\* a second primary match was reported although a later Enabled record has
\* no key data
C8_Witness ==
    /\ Returned("ValidateKeyset")
    /\ status = MultiplePrimaryDiag
    /\ \E i \in EnabledAt(keyset) :
          /\ i > Min(ViolationAt(keyset))
          /\ ~keyset.key[i].has_key_data

\* C9: records whose status is not Enabled do not influence ValidateKeyset:
\* inserting one (into a keyset shorter than MaxKeys) or removing one, anywhere
\* and with any fields, leaves the result unchanged while the keyset stays
\* non-empty; the result is never the
\* "unknown status" diagnostic; a primary_key_id matching only records that
\* are not Enabled does not count as a primary key.
C9_NonEnabledInvisible ==
    (Returned("ValidateKeyset") /\ Len(keyset.key) >= 1) =>
        /\ Len(keyset.key) < MaxKeys =>
              \A pos \in 1 .. Len(keyset.key) + 1 :
                 \A k \in {x \in KeysetKeys : x.status # "ENABLED"} :
                    ValidateKeyset(Insert(keyset, pos, k)) = status
        /\ \A pos \in DOMAIN keyset.key :
              (Len(keyset.key) >= 2 /\ keyset.key[pos].status # "ENABLED")
                 => ValidateKeyset(Remove(keyset, pos)) = status
        /\ status.format # "key %d has unknown status"
        /\ (/\ \E i \in DOMAIN keyset.key :
                  keyset.key[i].key_id = keyset.primary_key_id
            /\ PrimaryAt(keyset) = {}
            /\ NonPublicAt(keyset) # {})
              => status.error_code = "INVALID_ARGUMENT"

\* a keyset whose primary_key_id names only an Unknown-status record, and
\* which holds a Disabled record without key data, was rejected for lack of a
\* primary key
C9_Witness ==
    /\ Returned("ValidateKeyset")
    /\ status = NoPrimaryDiag
    /\ \E i \in DOMAIN keyset.key :
          /\ keyset.key[i].status = "UNKNOWN_STATUS"
          /\ keyset.key[i].key_id = keyset.primary_key_id
    /\ \E i \in DOMAIN keyset.key :
          /\ keyset.key[i].status = "DISABLED"
          /\ ~keyset.key[i].has_key_data

\* C10: ValidateKeyset returns OK on a keyset iff it returns OK on every
\* permutation of the keyset's records.
C10_OrderIndependentVerdict ==
    Returned("ValidateKeyset") =>
        \A p \in PermutationsOf[Len(keyset.key)] :
           (ValidateKeyset(Permute(keyset, p)).error_code = "OK")
              <=> (status.error_code = "OK")

\* a rejected keyset whose diagnostic changes with the order of its records
C10_Witness ==
    /\ Returned("ValidateKeyset")
    /\ Len(keyset.key) >= 2
    /\ status.error_code = "INVALID_ARGUMENT"
    /\ \E p \in PermutationsOf[Len(keyset.key)] :
          ValidateKeyset(Permute(keyset, p)) # status

=============================================================================
